---------------------------- MODULE Spec2Model ----------------------------
(***************************************************************************)
(* Model of instaseis/server/routes/finite_source.py: the finite-source    *)
(* seismogram route.  One POST request is modelled: the coroutine          *)
(* FiniteSourceSeismogramsHandler.post, the two worker functions it        *)
(* awaits (_parse_and_resample_finite_source, _get_finite_source) and the  *)
(* client closing the connection while the coroutine is suspended.         *)
(*                                                                         *)
(* Times are integers: seconds counted from default_origin_time.           *)
(***************************************************************************)
EXTENDS Integers, Sequences, FiniteSets, TLC

\* ------------------------------------------------------------------ bounds
MaxReceivers == 3
MaxComponents == 3
MaxSources == 2
\* samples per parsed slip-rate series (npts of from_usgs_param_file, scaled down)
ParamNpts == 2

\* ------------------------------------------------------- program constants
\* default_origin_time = UTCDateTime(1900, 1, 1): the zero of the time axis
DefaultOriginTime == 0
\* "The starttime can be at max one hour before the origin time."
MaxSecondsBeforeOrigin == 3600
\* HTTPError(400, ...)
ClientError == 400
\* round(args.dt / db.info.dt, 6)
RoundDigitsScale == 1000000

Unset == 0 - 1

\* ------------------------------------------------------------- time values
\* A time setting as _validtimesetting / the argument parser leaves it:
\* None, an absolute UTCDateTime, a float offset, or a phase-relative AttribDict.
NoTime == [kind |-> "none", v |-> 0]
Abs(t) == [kind |-> "abs", v |-> t]
Float(o) == [kind |-> "float", v |-> o]
Phase(o) == [kind |-> "phase", v |-> o]

IsAbs(t) == t.kind = "abs"
IsFloat(t) == t.kind = "float"
IsPhase(t) == t.kind = "phase"
IsNone(t) == t.kind = "none"

\* ------------------------------------------------------------ database info
\* self.application.db.info: dominant period, sample interval, sample count, length
Dbs ==
    { [period |-> 2, dt |-> 1, npts |-> 12, length |-> 11],
      [period |-> 5, dt |-> 3, npts |-> 8, length |-> 21] }

\* ------------------------------------------------------------ request body
\* Base time shift of the i-th point source of a parsed parameter file.
BaseTimeShift(i) == CASE i = 1 -> 2 [] i = 2 -> 0 [] i = 3 -> 3 [] OTHER -> 1

ParsedSliprate == [k \in 1..ParamNpts |-> 1]

BodySources(n) ==
    [i \in 1..n |-> [time_shift |-> BaseTimeShift(i), sliprate |-> ParsedSliprate]]

Bodies ==
    { [ok |-> FALSE, sources |-> << >>] }
      \cup { [ok |-> TRUE, sources |-> BodySources(n)] : n \in 1..MaxSources }

\* The receiver lists get_receivers(args) returns, a receiver being its station
\* number: the enumeration order is not the order of the station numbers.
ReceiverLists ==
    { [i \in 1..n |-> n + 1 - i] : n \in 1..MaxReceivers }
      \cup { [i \in 1..n |-> (i % n) + 1] : n \in 1..MaxReceivers }

\* receivers = self.get_receivers(args)
GetReceivers(req) == req.receivers

\* ------------------------------------------------------------------- state
VARIABLES
    request,            \* the request as received: body, receivers named, arguments
    db,                 \* self.application.db.info
    args,               \* parse_arguments() result; time fields resolved in place
    pc,                 \* position of the post() coroutine
    prep_pc,            \* position of the _parse_and_resample_finite_source thread
    prepared,           \* the FiniteSource object the preparation thread works on
    response,           \* value handed to the Task callback
    finite_source,      \* post(): finite_source
    tw,                 \* post(): time_of_first_sample, min_starttime, max_endtime
    receivers,          \* post(): receivers
    idx,                \* post(): position of the for loop in receivers
    window,             \* post(): starttime, endtime of the current receiver
    count,              \* post(): count
    zip_file,           \* post(): zip_file ("none", "open", "closed")
    zip_entries,        \* names written into zip_file
    buf,                \* post(): buf (IOQueue), chunks not yet taken out
    written,            \* chunks passed to self.write()
    flushed,            \* how many chunks of written self.flush() has sent
    connection_closed,  \* self.connection_closed
    inflight,           \* positions whose _get_finite_source task is running
    outcome,            \* how post() ended: "running", "finished", "aborted", "error",
    error,              \* the HTTPError raised out of post()
    dispatched,         \* history: positions for which extraction was dispatched
    results,            \* history: per position what happened to the receiver
    written_at_close    \* history: Len(written) when the connection closed

reqvars == << request, db >>
prepvars == << prep_pc, prepared >>
loopvars == << finite_source, tw, receivers, idx, window, count >>
outvars == << zip_file, zip_entries, buf, written, flushed >>
histvars == << dispatched, results, written_at_close >>
vars == << request, db, args, pc, prep_pc, prepared, response, finite_source, tw,
           receivers, idx, window, count, zip_file, zip_entries, buf, written,
           flushed, connection_closed, inflight, outcome, error, dispatched,
           results, written_at_close >>

NoError == [code |-> 0, kind |-> "none"]
HTTPError(code, kind) == [code |-> code, kind |-> kind]

NoResponse == [type |-> "none", error |-> NoError, items |-> << >>]
Pending == [type |-> "pending", error |-> NoError, items |-> << >>]
ExceptionResponse(e) == [type |-> "exception", error |-> e, items |-> << >>]
ModelResponse == [type |-> "finite_source", error |-> NoError, items |-> << >>]
ListResponse(items) == [type |-> "list", error |-> NoError, items |-> items]
BytesResponse(items) == [type |-> "bytes", error |-> NoError, items |-> items]

NoModel ==
    [pointsources |-> << >>, additional_time_shift |-> Unset,
     time_shift |-> Unset, origin_time |-> Unset]

\* time_values is None / no time_values yet
NoWindow == [none |-> TRUE, starttime |-> 0, endtime |-> 0]
Window(starttime, endtime) ==
    [none |-> FALSE, starttime |-> starttime, endtime |-> endtime]

\* the three times parse_time_settings returns; NoTimes before it returned
NoTimes == [returned |-> FALSE, time_of_first_sample |-> 0, min_starttime |-> 0,
            max_endtime |-> 0]


\* ------------------------------------------- _parse_and_resample_finite_source
\* math.ceil(a / b) for positive a, b
Ceil(a, b) == (a + b - 1) \div b

\* samples = int(math.ceil((2 * dominant_period / db_info.dt))) + 1
PaddingSamples(db_info) == Ceil(2 * db_info.period, db_info.dt) + 1

\* mutant: the shift is taken to be the two dominant periods themselves
PaddingShiftTwoPeriods(db_info) == 2 * db_info.period

\* shift = samples * db_info.dt
PaddingShift(db_info) == PaddingSamples(db_info) * db_info.dt

\* np.zeros(samples)
Zeros(n) == [k \in 1..n |-> 0]

\* mutant: the zeros are put in front of the series only
PadSourceFrontOnly(source, db_info) ==
    [time_shift |-> source.time_shift + PaddingShift(db_info),
     sliprate |-> Zeros(PaddingSamples(db_info)) \o source.sliprate]

\* source.sliprate = np.concatenate([zeros, source.sliprate, zeros])
\* source.time_shift += shift
PadSource(source, db_info) ==
    [time_shift |-> source.time_shift + PaddingShift(db_info),
     sliprate |-> Zeros(PaddingSamples(db_info)) \o source.sliprate
                    \o Zeros(PaddingSamples(db_info))]

\* the for loop over finite_source.pointsources, then
\* finite_source.additional_time_shift = shift
PadModel(fs, db_info) ==
    [fs EXCEPT
        !.pointsources =
            [i \in 1..Len(fs.pointsources) |-> PadSource(fs.pointsources[i], db_info)],
        !.additional_time_shift = PaddingShift(db_info)]

\* finite_source.lp_sliprate(freq=1.0 / dominant_period, zerophase=True): every
\* sample is replaced by a filtered value (2 stands for it), the count is kept
LpSliprate(fs) ==
    [fs EXCEPT
        !.pointsources =
            [i \in 1..Len(fs.pointsources) |->
                [fs.pointsources[i] EXCEPT
                    !.sliprate = [k \in 1..Len(fs.pointsources[i].sliprate) |-> 2]]]]

\* finite_source.resample_sliprate(dt=db_info.dt, nsamp=db_info.npts + 2 * samples):
\* every series becomes nsamp resampled values (3 stands for one)
ResampleSliprate(fs, db_info) ==
    [fs EXCEPT
        !.pointsources =
            [i \in 1..Len(fs.pointsources) |->
                [fs.pointsources[i] EXCEPT
                    !.sliprate =
                        [k \in 1..(db_info.npts + 2 * PaddingSamples(db_info)) |-> 3]]]]

\* finite_source.find_hypocenter(): the model's time_shift becomes the time shift
\* of the point source taken as hypocenter
HypocenterTimeShifts(fs) ==
    { fs.pointsources[i].time_shift : i \in 1..Len(fs.pointsources) }

\* FiniteSource.from_usgs_param_file(buf, npts=10000, dt=0.1, trise_min=1.0)
ParsedModel(body) == [NoModel EXCEPT !.pointsources = body.sources]

\* try: ... from_usgs_param_file ... except: callback(HTTPError(400, ...)); return
PrepParse ==
    /\ prep_pc = "parse"
    /\ IF request.body.ok
          THEN /\ prepared' = ParsedModel(request.body)
               /\ prep_pc' = "pad"
               /\ UNCHANGED response
          ELSE /\ response' = ExceptionResponse(HTTPError(ClientError, "parse"))
               /\ prep_pc' = "returned"
               /\ UNCHANGED prepared
    /\ UNCHANGED << reqvars, args, pc, loopvars, outvars, connection_closed,
                    inflight, outcome, error, histvars >>

PrepPad ==
    /\ prep_pc = "pad"
    /\ prepared' = PadModel(prepared, db)
    /\ prep_pc' = "filter"
    /\ UNCHANGED << reqvars, args, pc, response, loopvars, outvars,
                    connection_closed, inflight, outcome, error, histvars >>

PrepFilter ==
    /\ prep_pc = "filter"
    /\ prepared' = LpSliprate(prepared)
    /\ prep_pc' = "resample"
    /\ UNCHANGED << reqvars, args, pc, response, loopvars, outvars,
                    connection_closed, inflight, outcome, error, histvars >>

PrepResample ==
    /\ prep_pc = "resample"
    /\ prepared' = ResampleSliprate(prepared, db)
    /\ prep_pc' = "hypocenter"
    /\ UNCHANGED << reqvars, args, pc, response, loopvars, outvars,
                    connection_closed, inflight, outcome, error, histvars >>

\* finite_source.find_hypocenter(); callback(finite_source)
PrepHypocenter ==
    /\ prep_pc = "hypocenter"
    /\ \E ts \in HypocenterTimeShifts(prepared) :
          prepared' = [prepared EXCEPT !.time_shift = ts]
    /\ response' = ModelResponse
    /\ prep_pc' = "returned"
    /\ UNCHANGED << reqvars, args, pc, loopvars, outvars, connection_closed,
                    inflight, outcome, error, histvars >>

\* The steps after the try block (lines 88-114) run under no handler: when
\* lp_sliprate, resample_sliprate or find_hypocenter raises, the function is
\* left without callback having been called.
PrepRaisingSteps == {"filter", "resample", "hypocenter"}

PrepRaises ==
    /\ prep_pc \in PrepRaisingSteps
    /\ prep_pc' = "died"
    /\ UNCHANGED << reqvars, args, pc, prepared, response, loopvars, outvars,
                    connection_closed, inflight, outcome, error, histvars >>

\* ------------------------------------------------------- parse_time_settings
\* if args.origintime is None: args.origintime = self.default_origin_time
ResolveOrigin(origintime) ==
    IF IsNone(origintime) THEN Abs(DefaultOriginTime) ELSE origintime

\* if args.starttime is None: args.starttime = args.origintime
\* if isinstance(args.starttime, float):
\*     args.starttime = args.origintime + args.starttime
ResolveStart(origintime, starttime) ==
    IF IsNone(starttime) THEN origintime
    ELSE IF IsFloat(starttime) THEN Abs(origintime.v + starttime.v)
    ELSE starttime

\* mutant: the float end time is added to nothing
ResolveEndNotAdded(starttime, endtime) ==
    IF IsFloat(endtime) /\ IsAbs(starttime) THEN Abs(endtime.v) ELSE endtime

\* if isinstance(args.endtime, float):
\*     if isinstance(args.starttime, obspy.UTCDateTime):
\*         args.endtime = args.starttime + args.endtime
ResolveEnd(starttime, endtime) ==
    IF IsFloat(endtime) /\ IsAbs(starttime) THEN Abs(starttime.v + endtime.v)
    ELSE endtime

\* time_of_first_sample = args.origintime - finite_source.time_shift
TimeOfFirstSample(origintime, fs) == origintime.v - fs.time_shift

\* earliest_starttime = time_of_first_sample + finite_source.additional_time_shift
EarliestStarttime(tofs, fs) == tofs + fs.additional_time_shift

\* round(a / b, 6) scaled by 10^6, for positive a, b
Round6(a, b) == (2 * a * RoundDigitsScale + b) \div (2 * b)

\* latest_endtime = time_of_first_sample + db.info.length
\* if args.dt is not None and round(args.dt / db.info.dt, 6) != 0:
\*     latest_endtime -= args.kernelwidth * db.info.dt
LatestEndtime(tofs, a, db_info) ==
    IF a.dt # Unset /\ Round6(a.dt, db_info.dt) # 0
        THEN tofs + db_info.length - a.kernelwidth * db_info.dt
        ELSE tofs + db_info.length

\* if args.endtime is None: args.endtime = latest_endtime
DefaultEnd(endtime, latest) == IF IsNone(endtime) THEN Abs(latest) ELSE endtime

\* mutant: a start exactly one hour before the earliest start is rejected too
TimeSettingsErrorAtBoundary(starttime, endtime, earliest, latest) ==
    IF IsAbs(starttime) /\ starttime.v >= latest
        THEN HTTPError(ClientError, "starttime after end")
    ELSE IF IsAbs(starttime) /\ starttime.v <= earliest - MaxSecondsBeforeOrigin
        THEN HTTPError(ClientError, "starttime too early")
    ELSE IF IsAbs(endtime) /\ ~(earliest <= endtime.v /\ endtime.v <= latest)
        THEN HTTPError(ClientError, "endtime outside range")
    ELSE NoError

\* the sanity checks: the HTTPError raised, or NoError
TimeSettingsError(starttime, endtime, earliest, latest) ==
    IF IsAbs(starttime) /\ starttime.v >= latest
        THEN HTTPError(ClientError, "starttime after end")
    ELSE IF IsAbs(starttime) /\ starttime.v < earliest - MaxSecondsBeforeOrigin
        THEN HTTPError(ClientError, "starttime too early")
    ELSE IF IsAbs(endtime) /\ ~(earliest <= endtime.v /\ endtime.v <= latest)
        THEN HTTPError(ClientError, "endtime outside range")
    ELSE NoError

\* parse_time_settings(args, finite_source): args as left behind (the fields are
\* assigned in place, also when a check raises), the three times returned, and
\* the error raised
ParseTimeSettings(a, fs, db_info) ==
    LET origintime == ResolveOrigin(a.origintime)
        starttime == ResolveStart(origintime, a.starttime)
        endtime1 == ResolveEnd(starttime, a.endtime)
        tofs == TimeOfFirstSample(origintime, fs)
        earliest == EarliestStarttime(tofs, fs)
        latest == LatestEndtime(tofs, a, db_info)
        endtime == DefaultEnd(endtime1, latest)
    IN  [args |-> [a EXCEPT !.origintime = origintime, !.starttime = starttime,
                            !.endtime = endtime],
         times |-> [returned |-> TRUE, time_of_first_sample |-> tofs,
                    min_starttime |-> earliest, max_endtime |-> latest],
         error |-> TimeSettingsError(starttime, endtime, earliest, latest)]


\* ------------------------------------------------- get_phase_relative_times
\* The values self.get_phase_relative_times(...) can return for one receiver:
\* NoWindow (None) when a phase-relative setting has no arrival for the geometry
\* or falls outside [min_starttime - 3600, max_endtime]; otherwise the window.
\* With absolute settings the window is the validated pair itself.
PhaseRelativeTimes(a, t) ==
    IF ~IsPhase(a.starttime) /\ ~IsPhase(a.endtime)
        THEN { Window(a.starttime.v, a.endtime.v) }
        ELSE LET starttime == IF IsPhase(a.starttime)
                                 THEN t.min_starttime + a.starttime.v
                                 ELSE a.starttime.v
                 endtime == IF IsPhase(a.endtime) THEN t.max_endtime + a.endtime.v
                            ELSE IF IsFloat(a.endtime) THEN starttime + a.endtime.v
                            ELSE a.endtime.v
             IN  {NoWindow} \cup
                 { w \in { Window(starttime, endtime) } :
                     /\ w.starttime >= t.min_starttime - MaxSecondsBeforeOrigin
                     /\ w.endtime <= t.max_endtime }

\* ------------------------------------------------------------------ requests
Formats == {"miniseed", "saczip"}

NoArgs ==
    [format |-> "none", components |-> 0, dt |-> Unset, kernelwidth |-> 0,
     origintime |-> NoTime, starttime |-> NoTime, endtime |-> NoTime]

TimeArgs(origintime, starttime, endtime, dt, kernelwidth) ==
    [origintime |-> origintime, starttime |-> starttime, endtime |-> endtime,
     dt |-> dt, kernelwidth |-> kernelwidth]

\* The time arguments of the requests of Spec: defaults, phase-relative start,
\* phase-relative end, a start after the seismogram ends, float offsets.
SpecTimeArgs ==
    { TimeArgs(NoTime, NoTime, NoTime, Unset, 2),
      TimeArgs(Abs(5000), Phase(0), NoTime, 1, 2),
      TimeArgs(Abs(5000), Float(1), Phase(0), Unset, 2),
      TimeArgs(NoTime, Abs(99999), NoTime, Unset, 2),
      TimeArgs(Abs(5000), Float(0), Float(2), Unset, 2) }

MakeArgs(format, components, t) ==
    [format |-> format, components |-> components, dt |-> t.dt,
     kernelwidth |-> t.kernelwidth, origintime |-> t.origintime,
     starttime |-> t.starttime, endtime |-> t.endtime]

\* miniseed requests all ask for MaxComponents components: the number of
\* components only shapes the list a saczip extraction returns
FormatArgs ==
    { f \in [format : Formats, components : 1..MaxComponents] :
        f.format = "miniseed" => f.components = MaxComponents }

SpecRequests ==
    { [body |-> b, receivers |-> r, args |-> MakeArgs(f.format, f.components, t)] :
        b \in Bodies, r \in ReceiverLists, f \in FormatArgs, t \in SpecTimeArgs }

\* The state when post() is about to run.
InitWith(requests) ==
    /\ request \in requests
    /\ db \in Dbs
    /\ args = NoArgs
    /\ pc = "post"
    /\ prep_pc = "idle"
    /\ prepared = NoModel
    /\ response = NoResponse
    /\ finite_source = NoModel
    /\ tw = NoTimes
    /\ receivers = << >>
    /\ idx = 0
    /\ window = NoWindow
    /\ count = 0
    /\ zip_file = "none"
    /\ zip_entries = << >>
    /\ buf = << >>
    /\ written = << >>
    /\ flushed = 0
    /\ connection_closed = FALSE
    /\ inflight = {}
    /\ outcome = "running"
    /\ error = NoError
    /\ dispatched = << >>
    /\ results = [i \in 1..Len(request.receivers) |-> "none"]
    /\ written_at_close = Unset

Init == InitWith(SpecRequests)

\* --------------------------------------------------------------------- post
\* raise <HTTPError> out of post()
Raise(e) ==
    /\ outcome' = "error"
    /\ error' = e
    /\ pc' = "done"

\* mutant: the response is flushed but never finished
AbortWithoutFinish ==
    /\ flushed' = Len(written)
    /\ UNCHANGED << outcome, pc, error >>

\* self.flush(); self.finish(); return
Abort ==
    /\ flushed' = Len(written)
    /\ outcome' = "aborted"
    /\ pc' = "done"
    /\ UNCHANGED error

\* args = self.parse_arguments(); self.set_headers(args)
\* response = yield tornado.gen.Task(_parse_and_resample_finite_source, ...)
Post ==
    /\ pc = "post"
    /\ args' = request.args
    /\ response' = Pending
    /\ prep_pc' = "parse"
    /\ pc' = "await_prep"
    /\ UNCHANGED << reqvars, prepared, loopvars, outvars, connection_closed,
                    inflight, outcome, error, histvars >>

\* if isinstance(response, Exception): raise response
PrepFailed ==
    /\ pc = "await_prep"
    /\ response.type = "exception"
    /\ Raise(response.error)
    /\ UNCHANGED << reqvars, args, prepvars, response, loopvars, outvars,
                    connection_closed, inflight, histvars >>

\* finite_source = response; parse_time_settings raises
TimeSettingsRejected ==
    /\ pc = "await_prep"
    /\ response.type = "finite_source"
    /\ LET r == ParseTimeSettings(args, prepared, db)
       IN  /\ r.error # NoError
           /\ args' = r.args
           /\ finite_source' = prepared
           /\ Raise(r.error)
    /\ UNCHANGED << reqvars, prepvars, response, tw, receivers, idx, window,
                    count, outvars, connection_closed, inflight, histvars >>

\* if args.format == "saczip": buf = IOQueue(); zip_file = zipfile.ZipFile(buf, mode="w")
OpenZip(format) == IF format = "saczip" THEN "open" ELSE "none"

\* finite_source = response; the time settings are accepted;
\* receivers = self.get_receivers(args); the archive is opened; count = 0
EnterLoop ==
    /\ pc = "await_prep"
    /\ response.type = "finite_source"
    /\ LET r == ParseTimeSettings(args, prepared, db)
       IN  /\ r.error = NoError
           /\ args' = r.args
           /\ finite_source' = prepared
           /\ tw' = r.times
    /\ receivers' = GetReceivers(request)
    /\ zip_file' = OpenZip(args.format)
    /\ count' = 0
    /\ idx' = 1
    /\ pc' = "loop"
    /\ UNCHANGED << reqvars, prepvars, response, window, zip_entries, buf,
                    written, flushed, connection_closed, inflight, outcome,
                    error, histvars >>

\* mutant: the connection is not checked at the top of the loop
ClosedBeforeDispatchUnchecked == FALSE

\* if self.connection_closed: (the check before a receiver is resolved)
ClosedBeforeDispatch == connection_closed

\* mutant: the second check of the connection is left out
ClosedAfterExtractionUnchecked == FALSE

\* if self.connection_closed: (the check after the task returned)
ClosedAfterExtraction == connection_closed

\* for receiver in receivers: the connection is closed at the top of the body
LoopAbort ==
    /\ pc = "loop"
    /\ idx <= Len(receivers)
    /\ ClosedBeforeDispatch
    /\ Abort
    /\ UNCHANGED << reqvars, args, prepvars, response, loopvars, zip_file,
                    zip_entries, buf, written, connection_closed, inflight,
                    histvars >>

\* mutant: the task is started without yielding, the loop runs on
AfterDispatchNoYield == "loop"

\* Where the coroutine stands after handing the task to tornado.gen.Task: it
\* yields and runs on only when the callback delivered the response.
AfterDispatch == "await_extract"

\* mutant: a receiver without a window is counted as extracted
LoopSkipCounts ==
    /\ pc = "loop"
    /\ idx <= Len(receivers)
    /\ ~connection_closed
    /\ NoWindow \in PhaseRelativeTimes(args, tw)
    /\ idx' = idx + 1
    /\ count' = count + 1
    /\ results' = [results EXCEPT ![idx] = "nowindow"]
    /\ UNCHANGED << reqvars, args, pc, prepvars, response, finite_source, tw,
                    receivers, window, outvars, connection_closed,
                    inflight, outcome, error, dispatched, written_at_close >>

\* time_values is None: continue
LoopSkip ==
    /\ pc = "loop"
    /\ idx <= Len(receivers)
    /\ ~ClosedBeforeDispatch
    /\ NoWindow \in PhaseRelativeTimes(args, tw)
    /\ idx' = idx + 1
    /\ results' = [results EXCEPT ![idx] = "nowindow"]
    /\ UNCHANGED << reqvars, args, pc, prepvars, response, finite_source, tw,
                    receivers, window, count, outvars, connection_closed,
                    inflight, outcome, error, dispatched, written_at_close >>

\* starttime, endtime = time_values
\* response = yield tornado.gen.Task(_get_finite_source, ...)
LoopDispatch ==
    /\ pc = "loop"
    /\ idx <= Len(receivers)
    /\ ~ClosedBeforeDispatch
    /\ \E w \in PhaseRelativeTimes(args, tw) \ {NoWindow} : window' = w
    /\ response' = Pending
    /\ inflight' = inflight \cup {idx}
    /\ dispatched' = Append(dispatched, idx)
    /\ pc' = AfterDispatch
    /\ UNCHANGED << reqvars, args, prepvars, finite_source, tw, receivers, idx,
                    count, outvars, connection_closed, outcome, error, results,
                    written_at_close >>


\* --------------------------------------------------------- _get_finite_source
\* What _validate_and_write_waveforms hands to the callback for one receiver:
\* for saczip a list of (filename, content), one per component, for miniseed
\* one byte string.  A chunk is << station, component >>, component 0 for
\* the MiniSEED payload.
SacFiles(station, components) == [j \in 1..components |-> << station, j >>]

ExtractionResponse(station, a) ==
    IF a.format = "saczip" THEN ListResponse(SacFiles(station, a.components))
    ELSE BytesResponse(<< << station, 0 >> >>)

\* except Exception: callback(tornado.web.HTTPError(400, ...)); return
ExtractionFails ==
    /\ \E i \in inflight :
          /\ inflight' = inflight \ {i}
          /\ response' = ExceptionResponse(HTTPError(ClientError, "extraction"))
    /\ UNCHANGED << reqvars, args, pc, prepvars, loopvars, outvars,
                    connection_closed, outcome, error, histvars >>

\* finite_source.origin_time = time_of_first_sample + additional_time_shift
\* _validate_and_write_waveforms(..., callback=callback, ...)
ExtractionReturns ==
    /\ \E i \in inflight :
          /\ inflight' = inflight \ {i}
          /\ response' = ExtractionResponse(receivers[i], args)
    /\ finite_source' =
          [finite_source EXCEPT
              !.origin_time = tw.time_of_first_sample
                                + finite_source.additional_time_shift]
    /\ UNCHANGED << reqvars, args, pc, prepvars, tw, receivers, idx, window,
                    count, outvars, connection_closed, outcome, error, histvars >>

\* ------------------------------------------------- post, after the extraction
\* Check connection once again: self.flush(); self.finish(); return
ExtractionAbort ==
    /\ pc = "await_extract"
    /\ response.type \in {"exception", "list", "bytes"}
    /\ ClosedAfterExtraction
    /\ Abort
    /\ results' = [results EXCEPT ![idx] = "cancelled"]
    /\ UNCHANGED << reqvars, args, prepvars, response, loopvars, zip_file,
                    zip_entries, buf, written, connection_closed, inflight,
                    dispatched, written_at_close >>

\* mutant: a failed extraction is skipped like a receiver without a window
ExtractionSkipsFailure ==
    /\ pc = "await_extract"
    /\ response.type = "exception"
    /\ ~connection_closed
    /\ idx' = idx + 1
    /\ pc' = "loop"
    /\ results' = [results EXCEPT ![idx] = "failed"]
    /\ UNCHANGED << reqvars, args, prepvars, response, finite_source, tw,
                    receivers, window, count, outvars, connection_closed,
                    inflight, outcome, error, dispatched, written_at_close >>

\* mutant: the failure is raised before the connection is looked at
ExtractionRaiseFirst ==
    /\ pc = "await_extract"
    /\ response.type = "exception"
    /\ Raise(response.error)
    /\ results' = [results EXCEPT ![idx] = "failed"]
    /\ UNCHANGED << reqvars, args, prepvars, response, loopvars, outvars,
                    connection_closed, inflight, dispatched, written_at_close >>

\* if isinstance(response, Exception): raise response
ExtractionRaise ==
    /\ pc = "await_extract"
    /\ response.type = "exception"
    /\ ~ClosedAfterExtraction
    /\ Raise(response.error)
    /\ results' = [results EXCEPT ![idx] = "failed"]
    /\ UNCHANGED << reqvars, args, prepvars, response, loopvars, outvars,
                    connection_closed, inflight, dispatched, written_at_close >>

\* mutant: writestr runs once, after the loop over the response
ZipWriteStrLastOnly(entries, items) ==
    IF items = << >> THEN entries ELSE Append(entries, items[Len(items)])

\* for filename, content in response: zip_file.writestr(filename, content)
ZipWriteStr(entries, items) == entries \o items

\* mutant: the chunks are put in front of what was written
WriteChunksInFront(out, chunks) == chunks \o out

\* for data in buf: self.write(data)   /   self.write(response)
WriteChunks(out, chunks) == out \o chunks

\* mutant: the flush leaves the last chunk in the transport
FlushAllButLast(out) == IF out = << >> THEN 0 ELSE Len(out) - 1

\* self.flush()
Flush(out) == Len(out)

\* elif isinstance(response, list): ... else: self.write(response)
\* self.flush(); count += 1
ExtractionWrite ==
    /\ pc = "await_extract"
    /\ response.type \in {"list", "bytes"}
    /\ ~ClosedAfterExtraction
    /\ IF response.type = "list"
          THEN /\ args.format = "saczip"
               /\ zip_entries' = ZipWriteStr(zip_entries, response.items)
               /\ written' = WriteChunks(written,
                                buf \o SubSeq(zip_entries', Len(zip_entries) + 1,
                                              Len(zip_entries')))
               /\ buf' = << >>
          ELSE /\ written' = WriteChunks(written, response.items)
               /\ UNCHANGED << zip_entries, buf >>
    /\ flushed' = Flush(written')
    /\ count' = count + 1
    /\ idx' = idx + 1
    /\ pc' = "loop"
    /\ results' = [results EXCEPT ![idx] = "written"]
    /\ UNCHANGED << reqvars, args, prepvars, response, finite_source, tw,
                    receivers, window, zip_file, connection_closed, inflight,
                    outcome, error, dispatched, written_at_close >>

\* ------------------------------------------------------- post, after the loop
\* mutant: the test of the counter never fires
NothingExtractedNegative(c) == c < 0

\* if not count:
NothingExtracted(c) == c = 0

\* raise tornado.web.HTTPError(400, "No seismograms found ...")
RaiseNoResults ==
    /\ pc = "loop"
    /\ idx > Len(receivers)
    /\ NothingExtracted(count)
    /\ Raise(HTTPError(ClientError, "no results"))
    /\ UNCHANGED << reqvars, args, prepvars, response, loopvars, outvars,
                    connection_closed, inflight, histvars >>

\* The end of the zipfile (its central directory), as one chunk.
Trailer == << 0, 0 >>

\* mutant: the response is finished without closing the archive
FinishWithoutClose ==
    /\ pc = "loop"
    /\ idx > Len(receivers)
    /\ ~NothingExtracted(count)
    /\ flushed' = Flush(written)
    /\ outcome' = "finished"
    /\ pc' = "done"
    /\ UNCHANGED << reqvars, args, prepvars, response, loopvars, zip_file,
                    zip_entries, buf, written, connection_closed, inflight,
                    error, histvars >>

\* if args.format == "saczip": zip_file.close(); for data in buf: self.write(data)
\* self.finish()
Finish ==
    /\ pc = "loop"
    /\ idx > Len(receivers)
    /\ ~NothingExtracted(count)
    /\ IF args.format = "saczip"
          THEN /\ zip_file' = "closed"
               /\ written' = WriteChunks(written, buf \o << Trailer >>)
               /\ buf' = << >>
          ELSE UNCHANGED << zip_file, written, buf >>
    /\ flushed' = Flush(written')
    /\ outcome' = "finished"
    /\ pc' = "done"
    /\ UNCHANGED << reqvars, args, prepvars, response, loopvars, zip_entries,
                    connection_closed, inflight, error, histvars >>

\* ------------------------------------------------------- on_connection_close
\* The client closes the connection.  The handler's callback runs on the event
\* loop, that is only while post() is suspended in one of its two yields.
Disconnect ==
    /\ pc \in {"await_prep", "await_extract"}
    /\ ~connection_closed
    /\ connection_closed' = TRUE
    /\ written_at_close' = Len(written)
    /\ UNCHANGED << reqvars, args, pc, prepvars, response, loopvars, outvars,
                    inflight, outcome, error, dispatched, results >>

Next ==
    \/ Post
    \/ PrepParse
    \/ PrepPad
    \/ PrepFilter
    \/ PrepResample
    \/ PrepHypocenter
    \/ PrepRaises
    \/ PrepFailed
    \/ TimeSettingsRejected
    \/ EnterLoop
    \/ LoopAbort
    \/ LoopSkip
    \/ LoopDispatch
    \/ ExtractionFails
    \/ ExtractionReturns
    \/ ExtractionAbort
    \/ ExtractionRaise
    \/ ExtractionWrite
    \/ RaiseNoResults
    \/ Finish
    \/ Disconnect

Spec == Init /\ [][Next]_vars


\* ------------------------------------------------------------------ LiveSpec
\* The steps of the coroutine and of its two tasks that the event loop and the
\* worker threads take when they can: every step but the death of the worker
\* of the preparation and the client's closing of the connection.
Scheduled ==
    \/ Post
    \/ PrepParse
    \/ PrepPad
    \/ PrepFilter
    \/ PrepResample
    \/ PrepHypocenter
    \/ PrepFailed
    \/ TimeSettingsRejected
    \/ EnterLoop
    \/ LoopAbort
    \/ LoopSkip
    \/ LoopDispatch
    \/ ExtractionFails
    \/ ExtractionReturns
    \/ ExtractionAbort
    \/ ExtractionRaise
    \/ ExtractionWrite
    \/ RaiseNoResults
    \/ Finish

LiveSpec == Init /\ [][Next]_vars /\ WF_vars(Scheduled)

\* ------------------------------------------------------------------ TimeSpec
\* The same request, started from a wider choice of time arguments and a
\* single receiver: the specification of the claims about parse_time_settings.
WideOrigins == { NoTime, Abs(5000) }
WideStarts ==
    { NoTime, Float(0 - 3), Float(0), Float(4), Abs(5001), Abs(4), Phase(0),
      Float(0 - MaxSecondsBeforeOrigin), Float(0 - MaxSecondsBeforeOrigin - 1),
      Float(0 - MaxSecondsBeforeOrigin - 2), Float(0 - MaxSecondsBeforeOrigin - 3) }
WideEnds == { NoTime, Float(2), Float(6), Abs(5002), Abs(5), Phase(0) }
WideDts == { Unset, 1, 3 }
WideKernelwidths == { 1, 2 }

WideTimeArgs ==
    { TimeArgs(o, s, e, d, k) :
        o \in WideOrigins, s \in WideStarts, e \in WideEnds, d \in WideDts,
        k \in WideKernelwidths }

TimeRequests ==
    { [body |-> b, receivers |-> << 1 >>, args |-> MakeArgs(f, MaxComponents, t)] :
        b \in Bodies, f \in Formats, t \in WideTimeArgs }

TimeInit == InitWith(TimeRequests)

TimeSpec == TimeInit /\ [][Next]_vars

\* =================================================================== claims
\* Position of a station in the enumerated receiver list.
PositionOf(station) == CHOOSE i \in 1..Len(receivers) : receivers[i] = station

\* The chunks of the receivers at positions 1..k whose result was written, in
\* enumeration order.
RECURSIVE ChunksOfWritten(_)
ChunksOfWritten(k) ==
    IF k = 0 THEN << >>
    ELSE ChunksOfWritten(k - 1)
           \o (IF results[k] = "written"
                  THEN ExtractionResponse(receivers[k], args).items
                  ELSE << >>)

TimeSettingsResolved == finite_source # NoModel

\* The origin time the request gives, or the default.
RequestOrigin ==
    IF IsNone(request.args.origintime) THEN DefaultOriginTime
    ELSE request.args.origintime.v


\* C1: the chunks written to the client follow the enumeration of the
\* receivers: a chunk written before another belongs to the same or an earlier
\* receiver of the list, and no chunk is written twice.
C1_ReceiverOrder ==
    \A p, q \in 1..Len(written) :
        (p < q /\ written[p] # Trailer /\ written[q] # Trailer)
            => /\ PositionOf(written[p][1]) <= PositionOf(written[q][1])
               /\ written[p] # written[q]

\* two receivers were written, then the client went away
C1_Witness ==
    /\ outcome = "aborted"
    /\ count = 2
    /\ written[1][1] # written[Len(written)][1]

\* C2: at most one extraction task is in flight; while one is, the coroutine is
\* suspended on it, it is the task of the current receiver, and every receiver
\* dispatched before was written and flushed.
C2_OneInFlight ==
    /\ Cardinality(inflight) <= 1
    /\ inflight # {} =>
          /\ pc = "await_extract"
          /\ response = Pending
          /\ inflight = {idx}
          /\ dispatched # << >>
          /\ dispatched[Len(dispatched)] = idx
          /\ \A k \in 1..(Len(dispatched) - 1) :
                /\ dispatched[k] < idx
                /\ results[dispatched[k]] = "written"
          /\ flushed = Len(written)
          /\ buf = << >>

\* the second receiver's task runs after the first receiver was written
C2_Witness ==
    /\ inflight = {2}
    /\ results[1] = "written"

\* C3: when the connection was closed while the receivers were being processed,
\* the request ends without an error, and what was written is what had been
\* written when the connection closed: the chunks of the receivers handled
\* before, nothing of the receiver at which the loop stopped or of a later one.
C3_DisconnectKeepsPrefix ==
    (pc = "done" /\ connection_closed /\ receivers # << >>)
        => /\ outcome = "aborted"
           /\ error = NoError
           /\ idx <= Len(receivers)
           /\ Len(written) = written_at_close
           /\ written = ChunksOfWritten(idx - 1)
           /\ flushed = Len(written)
           /\ \A i \in idx..Len(receivers) : results[i] # "written"

\* receiver 1 had no window, receiver 2 was written, the client went away
\* during the extraction of receiver 3
C3_Witness ==
    /\ pc = "done"
    /\ connection_closed
    /\ Len(receivers) = 3
    /\ results = << "nowindow", "written", "cancelled" >>

\* C4: when every receiver resolves to "no window" and the connection stays
\* open, the request fails with the 400 "no results" error, raised after the
\* whole list was iterated, with no extraction dispatched and nothing written;
\* and that error is raised in no other situation.
C4_AllNoWindow ==
    /\ (/\ pc = "done"
        /\ receivers # << >>
        /\ ~connection_closed
        /\ \A i \in 1..Len(receivers) : results[i] = "nowindow")
          => /\ outcome = "error"
             /\ error = HTTPError(ClientError, "no results")
    /\ error.kind = "no results"
          => /\ idx = Len(receivers) + 1
             /\ \A i \in 1..Len(receivers) : results[i] = "nowindow"
             /\ dispatched = << >>
             /\ written = << >>
             /\ flushed = 0
             /\ zip_entries = << >>

\* three receivers, none with a window
C4_Witness ==
    /\ pc = "done"
    /\ error.kind = "no results"
    /\ Len(receivers) = 3
    /\ ~connection_closed

\* C5: when the coroutine resumes with a failed extraction and the connection
\* open, it raises that failure at once: nothing is written, the counter and
\* the loop position stay, nothing more is dispatched; and an ended request
\* does nothing more.
C5_FailurePropagates ==
    /\ [][(/\ pc = "await_extract"
           /\ response.type = "exception"
           /\ ~connection_closed
           /\ pc' # pc)
             => /\ pc' = "done"
                /\ outcome' = "error"
                /\ error' = HTTPError(ClientError, "extraction")
                /\ written' = written
                /\ flushed' = flushed
                /\ zip_entries' = zip_entries
                /\ count' = count
                /\ idx' = idx
                /\ dispatched' = dispatched]_vars
    /\ [][pc = "done"
             => /\ pc' = "done"
                /\ idx' = idx
                /\ dispatched' = dispatched
                /\ written' = written
                /\ count' = count]_vars

\* the second of three receivers failed after the first was written
C5_Witness ==
    /\ pc = "done"
    /\ error.kind = "extraction"
    /\ results = << "written", "failed", "none" >>
    /\ count = 1

\* C6: a saczip request that finishes with every receiver written holds
\* components * N archive entries, the entries of a receiver next to each
\* other and the receivers in enumeration order (3N entries for 3 components);
\* the client received exactly these entries and then the end of the archive.
C6_ArchiveEntries ==
    (/\ pc = "done"
     /\ outcome = "finished"
     /\ args.format = "saczip"
     /\ \A i \in 1..Len(receivers) : results[i] = "written")
        => /\ Len(zip_entries) = args.components * Len(receivers)
           /\ \A i \in 1..Len(receivers) : \A j \in 1..args.components :
                 zip_entries[args.components * (i - 1) + j] = << receivers[i], j >>
           /\ written = zip_entries \o << Trailer >>

\* three receivers of three components each: nine entries
C6_Witness ==
    /\ pc = "done"
    /\ outcome = "finished"
    /\ args.format = "saczip"
    /\ args.components = 3
    /\ Len(receivers) = 3
    /\ Len(zip_entries) = 9
    /\ ~connection_closed

\* C7 (as claimed): whenever a request whose archive writer was opened has
\* ended, the archive writer is closed.
C7_ArchiveClosedAtEnd ==
    (pc = "done" /\ zip_file # "none") => zip_file = "closed"

\* C8 (as claimed): when the preparation thread has ended without a complete
\* model, the awaiting request has been handed a 400 error, and no model
\* reached post().
C8_PreparationFailureReported ==
    (prep_pc \in {"returned", "died"} /\ prepared.time_shift = Unset)
        => /\ response.type = "exception"
           /\ response.error.code = ClientError
           /\ finite_source = NoModel

\* C9: once the time settings are resolved, a float start offset o has become
\* the absolute time origin + o, and a float end offset e with a start time
\* that is absolute (given, defaulted or resolved from a float) has become
\* start + e.
C9_FloatOffsets ==
    TimeSettingsResolved
        => /\ IsFloat(request.args.starttime)
                => args.starttime = Abs(RequestOrigin + request.args.starttime.v)
           /\ (IsFloat(request.args.endtime) /\ ~IsPhase(request.args.starttime))
                => /\ IsAbs(args.starttime)
                   /\ args.endtime = Abs(args.starttime.v + request.args.endtime.v)
           /\ IsAbs(request.args.starttime) => args.starttime = request.args.starttime
           /\ args.origintime = Abs(RequestOrigin)

\* origin 5000, start 4.0, end 2.0: the window is 5004..5006
C9_Witness ==
    /\ pc = "loop"
    /\ request.args.origintime = Abs(5000)
    /\ request.args.starttime = Float(4)
    /\ request.args.endtime = Float(2)
    /\ args.starttime = Abs(5004)
    /\ args.endtime = Abs(5006)

\* ceil(2 * period / dt) + 1, stated without the model's Ceil
IsPaddingSamples(n, db_info) ==
    /\ (n - 1) * db_info.dt >= 2 * db_info.period
    /\ (n - 2) * db_info.dt < 2 * db_info.period

\* C10: the window parse_time_settings returned has min_starttime =
\* time_of_first_sample + additional_time_shift, where additional_time_shift is
\* paddingSamples * dt for paddingSamples = ceil(2 * period / dt) + 1, and
\* every point source's time shift is its parsed time shift plus that amount.
C10_EarliestStart ==
    tw.returned
        => /\ tw.min_starttime
                = tw.time_of_first_sample + finite_source.additional_time_shift
           /\ \E n \in 1..(2 * db.period + 2) :
                 /\ IsPaddingSamples(n, db)
                 /\ finite_source.additional_time_shift = n * db.dt
                 /\ \A i \in 1..Len(request.body.sources) :
                       finite_source.pointsources[i].time_shift
                           = request.body.sources[i].time_shift + n * db.dt
           /\ Len(finite_source.pointsources) = Len(request.body.sources)

\* two point sources, a database whose dt does not divide two periods
C10_Witness ==
    /\ pc = "loop"
    /\ db.dt = 3
    /\ Len(finite_source.pointsources) = 2
    /\ finite_source.additional_time_shift = 15
    /\ tw.min_starttime = tw.time_of_first_sample + 15

\* C11 (as claimed): the latest end time returned is time_of_first_sample +
\* length, less kernelwidth * native dt exactly when dt is set and differs from
\* the native dt of the database.
C11_LatestEnd ==
    tw.returned
        => tw.max_endtime
             = tw.time_of_first_sample + db.length
                 - (IF args.dt # Unset /\ args.dt # db.dt
                       THEN args.kernelwidth * db.dt ELSE 0)

\* The times of the resolved settings, from the model and args as post() holds
\* them (also after parse_time_settings raised).
ResolvedEarliest ==
    args.origintime.v - finite_source.time_shift
        + finite_source.additional_time_shift

ResolvedLatest ==
    LatestEndtime(args.origintime.v - finite_source.time_shift, args, db)

\* C12: an absolute start time below earliest - 3600 is rejected with a 400; a
\* start time of exactly earliest - 3600 that lies before the latest end, with
\* an end time in range, is accepted; and when the settings are accepted an
\* absolute start lies in [earliest - 3600, latest) and an absolute end in
\* [earliest, latest].
C12_StartBoundary ==
    TimeSettingsResolved
        => /\ (IsAbs(args.starttime)
                 /\ args.starttime.v < ResolvedEarliest - MaxSecondsBeforeOrigin)
                => /\ ~tw.returned
                   /\ outcome = "error"
                   /\ error.code = ClientError
           /\ (/\ IsAbs(args.starttime)
               /\ args.starttime.v = ResolvedEarliest - MaxSecondsBeforeOrigin
               /\ args.starttime.v < ResolvedLatest
               /\ IsAbs(args.endtime)
                    => (ResolvedEarliest <= args.endtime.v
                          /\ args.endtime.v <= ResolvedLatest))
                => tw.returned
           /\ tw.returned
                => /\ tw.min_starttime = ResolvedEarliest
                   /\ tw.max_endtime = ResolvedLatest
                   /\ IsAbs(args.starttime)
                        => /\ args.starttime.v
                                >= tw.min_starttime - MaxSecondsBeforeOrigin
                           /\ args.starttime.v < tw.max_endtime
                   /\ IsAbs(args.endtime)
                        => /\ tw.min_starttime <= args.endtime.v
                           /\ args.endtime.v <= tw.max_endtime

\* a start exactly one hour before the earliest start was accepted
C12_Witness ==
    /\ pc = "loop"
    /\ tw.returned
    /\ IsFloat(request.args.starttime)
    /\ args.starttime.v = tw.min_starttime - MaxSecondsBeforeOrigin

\* C13: right after the padding every point source's slip-rate series is n
\* zeros, the parsed samples unchanged, n zeros, for n = ceil(2 * period / dt)
\* + 1; and in the model handed to post() every series has npts + 2 * n samples.
C13_Padding ==
    \E n \in 1..(2 * db.period + 2) :
        /\ IsPaddingSamples(n, db)
        /\ prep_pc = "filter"
              => /\ Len(prepared.pointsources) = Len(request.body.sources)
                 /\ \A i \in 1..Len(prepared.pointsources) :
                       prepared.pointsources[i].sliprate
                           = [k \in 1..n |-> 0] \o request.body.sources[i].sliprate
                               \o [k \in 1..n |-> 0]
        /\ (prep_pc = "returned" /\ response.type = "finite_source")
              => /\ Len(prepared.pointsources) = Len(request.body.sources)
                 /\ \A i \in 1..Len(prepared.pointsources) :
                       Len(prepared.pointsources[i].sliprate) = db.npts + 2 * n
        /\ \A i \in 1..Len(finite_source.pointsources) :
              Len(finite_source.pointsources[i].sliprate) = db.npts + 2 * n

\* two point sources were padded with 5 zeros on each side
C13_Witness ==
    /\ prep_pc = "filter"
    /\ db.dt = 3
    /\ Len(prepared.pointsources) = 2
    /\ Len(prepared.pointsources[2].sliprate) = 10 + Len(request.body.sources[2].sliprate)

\* C14: once connection_closed is set, no step dispatches an extraction or
\* writes anything more, and what was flushed stays flushed.
C14_NothingAfterClose ==
    [][connection_closed
          => /\ dispatched' = dispatched
             /\ inflight' \subseteq inflight
             /\ written' = written
             /\ zip_entries' = zip_entries
             /\ count' = count
             /\ flushed' >= flushed
             /\ connection_closed']_vars

\* the connection closed during the preparation of a request that then reached
\* the loop, and during an extraction after a receiver was written
C14_Witness ==
    /\ pc = "done"
    /\ connection_closed
    /\ outcome = "aborted"
    /\ written_at_close = Len(written)
    /\ Len(written) >= 1
    /\ flushed = Len(written)

\* C15: the step in which a receiver resolves to "no window" dispatches nothing,
\* writes nothing, leaves the counter alone, raises nothing and moves the loop
\* to the next receiver of the enumeration.
C15_SkipIsSilent ==
    [][(/\ pc = "loop"
        /\ idx <= Len(receivers)
        /\ results[idx] # "nowindow"
        /\ results'[idx] = "nowindow")
          => /\ idx' = idx + 1
             /\ pc' = "loop"
             /\ receivers' = receivers
             /\ count' = count
             /\ dispatched' = dispatched
             /\ inflight' = inflight
             /\ response' = response
             /\ written' = written
             /\ flushed' = flushed
             /\ zip_entries' = zip_entries
             /\ buf' = buf
             /\ outcome' = "running"
             /\ error' = NoError]_vars

\* receiver 1 was skipped, receiver 2 was extracted and written
C15_Witness ==
    /\ Len(receivers) = 3
    /\ results = << "nowindow", "written", "none" >>
    /\ count = 1
    /\ pc = "loop"

\* C16: whenever the loop is about to handle a receiver or an extraction is in
\* flight, the archive buffer is empty and everything written is flushed: the
\* output of every receiver processed so far, complete and in order, is with
\* the client.
C16_FlushedPerReceiver ==
    (pc \in {"loop", "await_extract"} \/ inflight # {})
        => /\ buf = << >>
           /\ written = ChunksOfWritten(idx - 1)
           /\ flushed = Len(written)
           /\ args.format = "saczip" => zip_entries = written

\* the third receiver's extraction is in flight, two receivers are written
C16_Witness ==
    /\ pc = "await_extract"
    /\ inflight = {3}
    /\ count = 2
    /\ args.format = "saczip"
    /\ flushed = 2 * args.components

\* C17: an archive-mode request that finishes normally has closed the archive,
\* after the entries of every written receiver were appended, and the trailer
\* is the last chunk written, once, and flushed; the archive is closed in no
\* other situation and stays closed; a miniseed request never has an archive,
\* archive entries or a trailer.
C17_ArchiveLifecycle ==
    /\ [](/\ (outcome = "finished" /\ args.format = "saczip")
                => zip_file = "closed"
          /\ zip_file = "closed"
                => /\ outcome = "finished"
                   /\ args.format = "saczip"
                   /\ count > 0
                   /\ ~connection_closed
                   /\ zip_entries = ChunksOfWritten(Len(receivers))
                   /\ written = zip_entries \o << Trailer >>
                   /\ flushed = Len(written)
                   /\ buf = << >>
          /\ zip_file # "closed"
                => \A p \in 1..Len(written) : written[p] # Trailer
          /\ request.args.format = "miniseed"
                => /\ zip_file = "none"
                   /\ zip_entries = << >>
                   /\ buf = << >>)
    /\ [][/\ zip_file = "closed" => (zip_file' = "closed" /\ written' = written)
          /\ (zip_file # "closed" /\ zip_file' = "closed")
                => (zip_file = "open" /\ pc = "loop" /\ pc' = "done"
                    /\ zip_entries' = zip_entries)]_vars

\* an archive with the entries of two receivers was closed
C17_Witness ==
    /\ zip_file = "closed"
    /\ count = 2
    /\ Len(receivers) = 3
    /\ written[Len(written)] = Trailer
    /\ Len(zip_entries) = 2 * args.components

\* C18: when the coroutine resumes after an extraction and the connection is
\* closed, the request ends gracefully whatever the extraction returned: no
\* error is raised and nothing of that receiver is written or counted.
C18_CancelFirst ==
    [][(/\ pc = "await_extract"
        /\ response.type \in {"exception", "list", "bytes"}
        /\ connection_closed
        /\ pc' # pc)
          => /\ pc' = "done"
             /\ outcome' = "aborted"
             /\ error' = NoError
             /\ written' = written
             /\ zip_entries' = zip_entries
             /\ count' = count
             /\ results'[idx] = "cancelled"
             /\ flushed' = Len(written)]_vars

\* the connection closed during an extraction that then failed
C18_Witness ==
    /\ pc = "done"
    /\ outcome = "aborted"
    /\ response.type = "exception"
    /\ results[idx] = "cancelled"

\* C19: a request that ended with a client error has written and flushed
\* nothing to the client.
C19_ErrorBeforePayload ==
    outcome = "error" => (written = << >> /\ flushed = 0)

\* The number of receivers whose output was written.
NumWritten == Cardinality({ i \in 1..Len(receivers) : results[i] = "written" })

\* C20: when the preparation task returns, the request eventually ends, with
\* exactly one of the outcomes finished, aborted and error; an ended request
\* stays ended with that outcome, handles no further receiver and writes
\* nothing more; and a finished request counted the receivers it wrote, at
\* least one.
C20_Terminates ==
    /\ <>(pc = "done" \/ prep_pc = "died")
    /\ [](pc = "done" <=> outcome \in {"finished", "aborted", "error"})
    /\ [](outcome \in {"running", "finished", "aborted", "error"})
    /\ [](outcome = "finished" => (count = NumWritten /\ count >= 1))
    /\ [](pc = "done" => inflight = {})
    /\ [][pc = "done"
             => /\ pc' = "done"
                /\ outcome' = outcome
                /\ error' = error
                /\ idx' = idx
                /\ results' = results
                /\ dispatched' = dispatched
                /\ written' = written
                /\ zip_entries' = zip_entries]_vars

\* three receivers, one without a window, two written, the request finished
C20_Witness ==
    /\ pc = "done"
    /\ outcome = "finished"
    /\ Len(receivers) = 3
    /\ count = 2
    /\ NumWritten = 2
    /\ \E i \in 1..3 : results[i] = "nowindow"

=============================================================================
